---- MODULE Spec2Model ----
(***************************************************************************)
(* Model of the modpack updater (your-modpack-repo/updater.py) and of the  *)
(* two manifest generators (generate_manifest.py).                         *)
(*                                                                         *)
(* The mod folder is a map from file name to content; a content is a       *)
(* sequence of chunks, so that a partially written download is a proper    *)
(* prefix of the payload.  A manifest is the list modpack.mods of the      *)
(* fetched JSON document; an entry carries its "file" string (a sequence   *)
(* of path tokens) and its "sha256" (None when the key is missing).        *)
(***************************************************************************)
EXTENDS Integers, Sequences, FiniteSets, TLC

VARIABLES
    mod_folder,         \* config["mod_folder"]: "" until a folder is chosen
    remove_old_var,     \* the "Remove outdated mods" checkbox
    remove_old,         \* config["remove_old"]
    fs,                 \* the mod folder: file name -> content or Absent
    pc,                 \* position of run_update / download_file
    err,                \* str(e) shown by run_update's exception handler
    mods,               \* manifest["modpack"]["mods"] of the current run
    i,                  \* index of the entry the for-loop is at
    existing_files,     \* set(os.listdir(mod_folder)) taken before the loop
    files_in_manifest,  \* names added by the loop so far
    success,            \* counter "Successful"
    errors,             \* counter "Failed"
    dest,               \* destination of the download in flight
    payload,            \* bytes the server is sending for it
    written,            \* chunks written to dest so far
    dl_ret,             \* return value of download_file
    todo,               \* existing_files - files_in_manifest still to remove
    fs0,                \* history: the folder when the run started
    dl_pre,             \* history: content of dest before the fetch
    attempts,           \* history: entries download_file was called for
    results,            \* history: per processed entry, what the run reported
    netFail,            \* history: entries whose transfer raised
    deleted,            \* history: files removed by this run
    prev,               \* history: "clean" after a run that fetched and ended without error
    gen                 \* state of the manifest generator (GenSpec)

vars == <<mod_folder, remove_old_var, remove_old, fs, pc, err, mods, i,
          existing_files, files_in_manifest, success, errors, dest,
          payload, written, dl_ret, todo, fs0, dl_pre, attempts, results,
          netFail, deleted, prev, gen>>

(***************************************************************************)
(* Bounds and universes                                                    *)
(***************************************************************************)
MaxMods == 2            \* longest manifest explored

Absent == [exists |-> FALSE, data |-> <<>>]   \* os.path.exists(filepath) is False
File(c) == [exists |-> TRUE, data |-> c]      \* a regular file holding c
None == <<>>                                  \* Python None where a digest is expected

Names == {"a.jar", "b.jar", "c.jar"}

V1 == <<3>>             \* an old version of a mod, one chunk
V2 == <<1, 2>>          \* a new version, two chunks

Payloads == {V1, V2}    \* what a URL may serve

FileA == <<"mods", "/", "a.jar">>
FileA2 == <<"libs", "/", "a.jar">>
FileB == <<"mods", "/", "b.jar">>
NoFile == <<>>          \* "file" missing or empty: mod.get("file", "")

(***************************************************************************)
(* Pure functions                                                          *)
(***************************************************************************)
Last(q) == q[Len(q)]
Front(q) == SubSeq(q, 1, Len(q) - 1)

(* hashlib.sha256 over the chunks of a file: an injective fold (base 4     *)
(* over chunks 1..3), standing for a collision-free digest.                *)
RECURSIVE Sha256(_)
Sha256(c) == IF c = <<>> THEN 1 ELSE Sha256(Front(c)) * 4 + Last(c)

hexdigest(c) == <<Sha256(c)>>

(* ModUpdater.calculate_sha256: None for a missing file, else hexdigest.   *)
calculate_sha256(folder, name) ==
    IF ~folder[name].exists THEN None ELSE hexdigest(folder[name].data)

(* str.split("/"): a path is a sequence of tokens, "/" the separator, the  *)
(* other tokens maximal runs without a separator; "" is the empty run.     *)
RECURSIVE Split(_)
Split(s) ==
    IF s = <<>> THEN <<"">>
    ELSE LET r == Split(Tail(s))
         IN  IF Head(s) = "/" THEN <<"">> \o r ELSE [r EXCEPT ![1] = Head(s)]

(* filename = mod.get("file", "").split("/")[-1] *)
Filename(mod) == Last(Split(mod.file))

(* if not mods: raise ValueError                                           *)
(* (ModsEmptyNever: the guard left out)                                    *)
ModsEmptyNever(m) == FALSE
ModsEmpty(m) == Len(m) = 0

(* os.path.exists(filepath) and local_hash == mod.get("sha256")            *)
(* (UpToDateNever: every file is fetched again; UpToDateAlways: a file     *)
(* that exists is kept without comparing its digest)                       *)
UpToDateNever(folder, mod) == FALSE
UpToDateAlways(folder, mod) == folder[Filename(mod)].exists
UpToDate(folder, mod) ==
    /\ folder[Filename(mod)].exists
    /\ calculate_sha256(folder, Filename(mod)) = mod.sha256

(* "sha256" in mod and new_hash != mod["sha256"] *)
HashMismatch(folder, mod) ==
    /\ mod.sha256 # None
    /\ calculate_sha256(folder, Filename(mod)) # mod.sha256

(* if self.updater.config.get("remove_old", True)                          *)
(* (CleanupAlways: the setting is ignored)                                 *)
CleanupAlways(flag) == TRUE
CleanupEnabled(flag) == flag

(* existing_files - files_in_manifest *)
Stale(existing, inManifest) == existing \ inManifest

(* download_file: "except Exception: return False" hands control back to   *)
(* run_update, which counts the result                                     *)
(* (OnDownloadErrorPropagate: the exception reaches run_update's handler)  *)
OnDownloadErrorPropagate == "error"
OnDownloadError == "verify"

Present(folder) == {f \in Names : folder[f].exists}

(* The entries a manifest is built from: one without a "file" (and        *)
(* without a "sha256"), and three well-formed ones, two of which share a   *)
(* base name under different directories and digests.                      *)
ModUniverse ==
    { [file |-> NoFile, sha256 |-> None],
      [file |-> FileA,  sha256 |-> hexdigest(V2)],
      [file |-> FileA2, sha256 |-> hexdigest(V1)],
      [file |-> FileB,  sha256 |-> hexdigest(V2)] }

RECURSIVE SeqsUpTo(_, _)
SeqsUpTo(S, n) ==
    IF n = 0 THEN {<<>>}
    ELSE LET shorter == SeqsUpTo(S, n - 1)
         IN  shorter \cup {Append(q, x) : q \in {r \in shorter : Len(r) = n - 1}, x \in S}

Manifests == SeqsUpTo(ModUniverse, MaxMods)



(***************************************************************************)
(* Initial state: the application after construction, before any run.      *)
(***************************************************************************)
NoModsMsg == "No mods found in manifest!"
FetchErrMsg == "manifest could not be fetched or parsed"

UpdInit ==
    /\ mod_folder \in {"", "mods"}
    /\ remove_old_var \in BOOLEAN
    /\ remove_old = remove_old_var
    /\ fs \in [Names -> {Absent, File(V1), File(V2)}]
    /\ fs["c.jar"] # File(V2)
    /\ pc = "idle"
    /\ err = ""
    /\ mods = <<>>
    /\ i = 0
    /\ existing_files = {}
    /\ files_in_manifest = {}
    /\ success = 0
    /\ errors = 0
    /\ dest = ""
    /\ payload = <<>>
    /\ written = 0
    /\ dl_ret = FALSE
    /\ todo = {}
    /\ fs0 = fs
    /\ dl_pre = Absent
    /\ attempts = <<>>
    /\ results = <<>>
    /\ netFail = {}
    /\ deleted = {}
    /\ prev = "other"

GenOff == [pc |-> "off"]

Init == UpdInit /\ gen = GenOff

(***************************************************************************)
(* GUI callbacks outside a run                                             *)
(***************************************************************************)
(* set_mod_folder: the dialog returns a folder (or "" when cancelled).     *)
set_mod_folder ==
    /\ pc = "idle"
    /\ \E folder \in {"", "mods"} :
         mod_folder' = IF folder # "" THEN folder ELSE mod_folder
    /\ UNCHANGED <<remove_old_var, remove_old, fs, pc, err, mods, i,
                   existing_files, files_in_manifest, success, errors,
                   dest, payload, written, dl_ret, todo, fs0, dl_pre,
                   attempts, results, netFail, deleted, prev, gen>>

(* The user ticks or unticks "Remove outdated mods".                       *)
ToggleRemoveOld ==
    /\ pc = "idle"
    /\ remove_old_var' = ~remove_old_var
    /\ UNCHANGED <<mod_folder, remove_old, fs, pc, err, mods, i,
                   existing_files, files_in_manifest, success, errors,
                   dest, payload, written, dl_ret, todo, fs0, dl_pre,
                   attempts, results, netFail, deleted, prev, gen>>

(***************************************************************************)
(* run_update                                                              *)
(***************************************************************************)
(* Lines 257-259: no folder is set: error box and return.                  *)
RunUpdateNoFolder ==
    /\ pc = "idle"
    /\ mod_folder = ""
    /\ UNCHANGED vars

(* Lines 261-271: the settings are saved and the run starts.               *)
RunUpdateStart ==
    /\ pc = "idle"
    /\ mod_folder # ""
    /\ remove_old' = remove_old_var
    /\ pc' = "fetch"
    /\ err' = ""
    /\ fs0' = fs
    /\ UNCHANGED <<mod_folder, remove_old_var, fs, mods, i, existing_files,
                   files_in_manifest, success, errors, dest, payload,
                   written, dl_ret, todo, dl_pre, attempts, results,
                   netFail, deleted, prev, gen>>

(* Lines 276-289: the manifest arrives; an empty list raises ValueError,   *)
(* otherwise the folder is listed and the counters are reset.              *)
FetchManifest ==
    /\ pc = "fetch"
    /\ \E m \in Manifests :
         /\ mods' = m
         /\ prev' = IF prev = "clean" /\ m = mods THEN "clean_same"
                    ELSE "other"
         /\ IF ModsEmpty(m)
            THEN /\ pc' = "error"
                 /\ err' = NoModsMsg
                 /\ UNCHANGED <<i, existing_files, files_in_manifest, success,
                                errors>>
            ELSE /\ pc' = "loop"
                 /\ i' = 1
                 /\ existing_files' = Present(fs)
                 /\ files_in_manifest' = {}
                 /\ success' = 0
                 /\ errors' = 0
                 /\ UNCHANGED err
    /\ UNCHANGED <<mod_folder, remove_old_var, remove_old, fs, dest,
                   payload, written, dl_ret, todo, fs0, dl_pre, attempts,
                   results, netFail, deleted, gen>>

(* Lines 276-277, 347-350: urlopen or json.load raises.                    *)
FetchManifestFails ==
    /\ pc = "fetch"
    /\ pc' = "error"
    /\ err' = FetchErrMsg
    /\ prev' = "other"
    /\ UNCHANGED <<mod_folder, remove_old_var, remove_old, fs, mods, i,
                   existing_files, files_in_manifest, success, errors,
                   dest, payload, written, dl_ret, todo, fs0, dl_pre,
                   attempts, results, netFail, deleted, gen>>

(* Lines 292-311: one iteration of the loop up to the download call.       *)
ProcessMod ==
    /\ pc = "loop"
    /\ i <= Len(mods)
    /\ LET mod == mods[i]
           filename == Filename(mod)
       IN  IF filename = ""
           THEN /\ i' = i + 1
                /\ results' = Append(results, "skip")
                /\ UNCHANGED <<pc, files_in_manifest, success, dest, dl_pre,
                               attempts>>
           ELSE /\ files_in_manifest' = files_in_manifest \cup {filename}
                /\ IF UpToDate(fs, mod)
                   THEN /\ success' = success + 1
                        /\ i' = i + 1
                        /\ results' = Append(results, "keep")
                        /\ UNCHANGED <<pc, dest, dl_pre, attempts>>
                   ELSE /\ pc' = "download"
                        /\ dest' = filename
                        /\ dl_pre' = fs[filename]
                        /\ attempts' = Append(attempts, i)
                        /\ UNCHANGED <<i, success, results>>
    /\ UNCHANGED <<mod_folder, remove_old_var, remove_old, fs, err, mods,
                   existing_files, errors, payload, written, dl_ret, todo,
                   fs0, netFail, deleted, prev, gen>>

(***************************************************************************)
(* download_file                                                           *)
(***************************************************************************)
(* Lines 67-71: makedirs, urlopen or open(dest) raises before dest is      *)
(* touched; the handler of lines 85-86 returns False.                      *)
DownloadConnectFails ==
    /\ pc = "download"
    /\ pc' = OnDownloadError
    /\ dl_ret' = FALSE
    /\ netFail' = netFail \cup {i}
    /\ UNCHANGED <<mod_folder, remove_old_var, remove_old, fs, err, mods,
                   i, existing_files, files_in_manifest, success, errors,
                   dest, payload, written, todo, fs0, dl_pre, attempts,
                   results, deleted, prev, gen>>

(* Line 71: the response is open and open(dest, 'wb') truncates dest.      *)
DownloadOpen ==
    /\ pc = "download"
    /\ \E p \in Payloads : payload' = p
    /\ written' = 0
    /\ fs' = [fs EXCEPT ![dest] = File(<<>>)]
    /\ pc' = "stream"
    /\ UNCHANGED <<mod_folder, remove_old_var, remove_old, err, mods, i,
                   existing_files, files_in_manifest, success, errors,
                   dest, dl_ret, todo, fs0, dl_pre, attempts, results,
                   netFail, deleted, prev, gen>>

(* Lines 76-80: one chunk read and written to dest.                        *)
DownloadChunk ==
    /\ pc = "stream"
    /\ written < Len(payload)
    /\ written' = written + 1
    /\ fs' = [fs EXCEPT ![dest] = File(SubSeq(payload, 1, written + 1))]
    /\ UNCHANGED <<mod_folder, remove_old_var, remove_old, pc, err, mods,
                   i, existing_files, files_in_manifest, success, errors,
                   dest, payload, dl_ret, todo, fs0, dl_pre, attempts,
                   results, netFail, deleted, prev, gen>>

(* Lines 76, 85-86: response.read raises before the body is complete; the  *)
(* with-block closes dest with what was written so far and the handler     *)
(* returns False.                                                          *)
DownloadReadFails ==
    /\ pc = "stream"
    /\ written < Len(payload)
    /\ pc' = OnDownloadError
    /\ dl_ret' = FALSE
    /\ netFail' = netFail \cup {i}
    /\ UNCHANGED <<mod_folder, remove_old_var, remove_old, fs, err, mods,
                   i, existing_files, files_in_manifest, success, errors,
                   dest, payload, written, todo, fs0, dl_pre, attempts,
                   results, deleted, prev, gen>>

(* Lines 77-78, 84: the empty chunk ends the stream; return True.          *)
DownloadEnd ==
    /\ pc = "stream"
    /\ written = Len(payload)
    /\ pc' = "verify"
    /\ dl_ret' = TRUE
    /\ UNCHANGED <<mod_folder, remove_old_var, remove_old, fs, err, mods,
                   i, existing_files, files_in_manifest, success, errors,
                   dest, payload, written, todo, fs0, dl_pre, attempts,
                   results, netFail, deleted, prev, gen>>

(* Lines 317-327: back in run_update, the result of the download is        *)
(* counted and the loop moves on.                                          *)
Verify ==
    /\ pc = "verify"
    /\ IF dl_ret
       THEN IF HashMismatch(fs, mods[i])
            THEN /\ errors' = errors + 1
                 /\ results' = Append(results, "mismatch")
                 /\ UNCHANGED success
            ELSE /\ success' = success + 1
                 /\ results' = Append(results, "success")
                 /\ UNCHANGED errors
       ELSE /\ errors' = errors + 1
            /\ results' = Append(results, "failed")
            /\ UNCHANGED success
    /\ i' = i + 1
    /\ pc' = "loop"
    /\ dest' = ""
    /\ payload' = <<>>
    /\ written' = 0
    /\ dl_pre' = Absent
    /\ UNCHANGED <<mod_folder, remove_old_var, remove_old, fs, err, mods,
                   existing_files, files_in_manifest, dl_ret, todo, fs0,
                   attempts, netFail, deleted, prev, gen>>

(* Lines 329-332: the loop is over; with cleanup on, the stale files are   *)
(* queued for removal.                                                     *)
LoopEnd ==
    /\ pc = "loop"
    /\ i > Len(mods)
    /\ IF CleanupEnabled(remove_old)
       THEN /\ pc' = "cleanup"
            /\ todo' = Stale(existing_files, files_in_manifest)
       ELSE /\ pc' = "done"
            /\ UNCHANGED todo
    /\ UNCHANGED <<mod_folder, remove_old_var, remove_old, fs, err, mods,
                   i, existing_files, files_in_manifest, success, errors,
                   dest, payload, written, dl_ret, fs0, dl_pre, attempts,
                   results, netFail, deleted, prev, gen>>

(* Lines 332-336: os.remove succeeds on one stale file (a set is iterated  *)
(* in no particular order).                                                *)
RemoveFile ==
    /\ pc = "cleanup"
    /\ \E file \in todo :
         /\ fs' = [fs EXCEPT ![file] = Absent]
         /\ deleted' = deleted \cup {file}
         /\ todo' = todo \ {file}
    /\ UNCHANGED <<mod_folder, remove_old_var, remove_old, pc, err, mods,
                   i, existing_files, files_in_manifest, success, errors,
                   dest, payload, written, dl_ret, fs0, dl_pre, attempts,
                   results, netFail, prev, gen>>

(* Lines 337-338: os.remove raises (file in use, no permission); logged    *)
(* and skipped.                                                            *)
RemoveFileFails ==
    /\ pc = "cleanup"
    /\ \E file \in todo : todo' = todo \ {file}
    /\ UNCHANGED <<mod_folder, remove_old_var, remove_old, fs, pc, err,
                   mods, i, existing_files, files_in_manifest, success,
                   errors, dest, payload, written, dl_ret, fs0, dl_pre,
                   attempts, results, netFail, deleted, prev, gen>>

(* Lines 339-345: the final status is shown.                               *)
CleanupEnd ==
    /\ pc = "cleanup"
    /\ todo = {}
    /\ pc' = "done"
    /\ UNCHANGED <<mod_folder, remove_old_var, remove_old, fs, err, mods,
                   i, existing_files, files_in_manifest, success, errors,
                   dest, payload, written, dl_ret, todo, fs0, dl_pre,
                   attempts, results, netFail, deleted, prev, gen>>

(* Lines 351-352: run_update returns to the main loop.  The history of the *)
(* run is dropped; prev remembers whether it fetched something and ended   *)
(* without an error.                                                       *)
Return ==
    /\ pc \in {"done", "error"}
    /\ pc' = "idle"
    /\ prev' = IF /\ pc = "done"
                  /\ errors = 0
                  /\ \E k \in 1..Len(results) : results[k] = "success"
               THEN "clean" ELSE "other"
    /\ err' = ""
    /\ i' = 0
    /\ existing_files' = {}
    /\ files_in_manifest' = {}
    /\ success' = 0
    /\ errors' = 0
    /\ dest' = ""
    /\ payload' = <<>>
    /\ written' = 0
    /\ dl_pre' = Absent
    /\ dl_ret' = FALSE
    /\ todo' = {}
    /\ fs0' = fs
    /\ attempts' = <<>>
    /\ results' = <<>>
    /\ netFail' = {}
    /\ deleted' = {}
    /\ UNCHANGED <<mod_folder, remove_old_var, remove_old, fs, mods, gen>>

Next ==
    \/ set_mod_folder
    \/ ToggleRemoveOld
    \/ RunUpdateNoFolder
    \/ RunUpdateStart
    \/ FetchManifest
    \/ FetchManifestFails
    \/ ProcessMod
    \/ DownloadConnectFails
    \/ DownloadOpen
    \/ DownloadChunk
    \/ DownloadReadFails
    \/ DownloadEnd
    \/ Verify
    \/ LoopEnd
    \/ RemoveFile
    \/ RemoveFileFails
    \/ CleanupEnd
    \/ Return

Spec == Init /\ [][Next]_vars

(***************************************************************************)
(* The manifest generators.  variant "root" is generate_manifest.py (mods  *)
(* and configs), variant "repo" is your-modpack-repo/generate_manifest.py  *)
(* (mods only).  A file name is <<stem, extension>>.                       *)
(***************************************************************************)
CONFIG_EXTS == {".json", ".cfg", ".yml", ".yaml", ".properties", ".toml"}

ModsDirFiles == {<<"a", ".jar">>, <<"notes", ".txt">>}
ConfigDirFiles == {<<"opt", ".json">>, <<"readme", ".md">>}

(* str.endswith with one suffix, and with a tuple of suffixes *)
endswith(name, suffix) == Last(name) = suffix
endswithAny(name, suffixes) == Last(name) \in suffixes

(* the bytes of a file of the reference tree *)
GenContent(name) == IF name[1] = "a" THEN V2 ELSE V1

(* compute_sha256 / calculate_sha256 of the generators *)
compute_sha256(name) == hexdigest(GenContent(name))

(* the entry appended for a mod file *)
ModEntry(variant, filename) ==
    IF variant = "root"
    THEN [name |-> filename, file |-> <<"mods", "/">> \o filename,
          sha256 |-> compute_sha256(filename)]
    ELSE [name |-> filename, url |-> <<"BASE_URL">> \o filename,
          sha256 |-> compute_sha256(filename)]

(* the entry appended for a config file *)
ConfigEntry(filename) ==
    [name |-> filename, path |-> <<"config", "/">> \o filename,
     sha256 |-> compute_sha256(filename)]

(* the roots a variant is configured with *)
ConfiguredRoots(variant) ==
    IF variant = "root" THEN {"mods", "config"} ELSE {"mods"}

(* The generator starts in a working directory where each root may or may  *)
(* not exist and manifest.json has not been written.                       *)
GenFiles ==
    \E variant \in {"root", "repo"}, mdir \in BOOLEAN, cdir \in BOOLEAN,
       mfiles \in SUBSET ModsDirFiles, cfiles \in SUBSET ConfigDirFiles :
        /\ mdir \/ mfiles = {}
        /\ cdir \/ cfiles = {}
        /\ gen = [pc |-> "start", variant |-> variant,
                  mods_dir |-> mdir, mods_files |-> mfiles,
                  config_dir |-> cdir, config_files |-> cfiles,
                  pending |-> {}, mods |-> <<>>, configs |-> <<>>,
                  written |-> FALSE, manifest_json |-> <<>>,
                  reported |-> ""]

(* The updater is not running while the generator is modelled.             *)
UpdOff ==
    /\ mod_folder = ""
    /\ remove_old_var = TRUE
    /\ remove_old = TRUE
    /\ fs = [f \in Names |-> Absent]
    /\ pc = "off"
    /\ err = ""
    /\ mods = <<>>
    /\ i = 0
    /\ existing_files = {}
    /\ files_in_manifest = {}
    /\ success = 0
    /\ errors = 0
    /\ dest = ""
    /\ payload = <<>>
    /\ written = 0
    /\ dl_ret = FALSE
    /\ todo = {}
    /\ fs0 = fs
    /\ dl_pre = Absent
    /\ attempts = <<>>
    /\ results = <<>>
    /\ netFail = {}
    /\ deleted = {}
    /\ prev = "other"

(* os.listdir(MODS_DIR): raises FileNotFoundError when the directory is    *)
(* missing (nothing catches it: the traceback is the report).              *)
GenListMods ==
    /\ gen.pc = "start"
    /\ gen' = IF gen.mods_dir
              THEN [gen EXCEPT !.pc = "mods", !.pending = gen.mods_files]
              ELSE [gen EXCEPT !.pc = "crashed",
                               !.reported = "FileNotFoundError"]
    /\ UNCHANGED <<mod_folder, remove_old_var, remove_old, fs, pc, err,
                   mods, i, existing_files, files_in_manifest, success,
                   errors, dest, payload, written, dl_ret, todo, fs0,
                   dl_pre, attempts, results, netFail, deleted, prev>>

(* one iteration over the listing: a .jar is hashed and added              *)
GenAddMod ==
    /\ gen.pc = "mods"
    /\ \E filename \in gen.pending :
         gen' = [gen EXCEPT
                   !.pending = gen.pending \ {filename},
                   !.mods = IF endswith(filename, ".jar")
                            THEN Append(gen.mods, ModEntry(gen.variant, filename))
                            ELSE gen.mods]
    /\ UNCHANGED <<mod_folder, remove_old_var, remove_old, fs, pc, err,
                   mods, i, existing_files, files_in_manifest, success,
                   errors, dest, payload, written, dl_ret, todo, fs0,
                   dl_pre, attempts, results, netFail, deleted, prev>>

(* the mods loop is over: "root" walks CONFIG_DIR (os.walk yields nothing  *)
(* for a directory that does not exist), "repo" goes on to write.          *)
GenModsDone ==
    /\ gen.pc = "mods"
    /\ gen.pending = {}
    /\ gen' = IF gen.variant = "root"
              THEN [gen EXCEPT !.pc = "configs",
                               !.pending = IF gen.config_dir
                                           THEN gen.config_files ELSE {}]
              ELSE [gen EXCEPT !.pc = "write"]
    /\ UNCHANGED <<mod_folder, remove_old_var, remove_old, fs, pc, err,
                   mods, i, existing_files, files_in_manifest, success,
                   errors, dest, payload, written, dl_ret, todo, fs0,
                   dl_pre, attempts, results, netFail, deleted, prev>>

(* one file of the walk: a recognised extension is hashed and added        *)
GenAddConfig ==
    /\ gen.pc = "configs"
    /\ \E filename \in gen.pending :
         gen' = [gen EXCEPT
                   !.pending = gen.pending \ {filename},
                   !.configs = IF endswithAny(filename, CONFIG_EXTS)
                               THEN Append(gen.configs, ConfigEntry(filename))
                               ELSE gen.configs]
    /\ UNCHANGED <<mod_folder, remove_old_var, remove_old, fs, pc, err,
                   mods, i, existing_files, files_in_manifest, success,
                   errors, dest, payload, written, dl_ret, todo, fs0,
                   dl_pre, attempts, results, netFail, deleted, prev>>

GenConfigsDone ==
    /\ gen.pc = "configs"
    /\ gen.pending = {}
    /\ gen' = [gen EXCEPT !.pc = "write"]
    /\ UNCHANGED <<mod_folder, remove_old_var, remove_old, fs, pc, err,
                   mods, i, existing_files, files_in_manifest, success,
                   errors, dest, payload, written, dl_ret, todo, fs0,
                   dl_pre, attempts, results, netFail, deleted, prev>>

(* json.dump(manifest) into manifest.json *)
GenWrite ==
    /\ gen.pc = "write"
    /\ gen' = [gen EXCEPT !.pc = "done", !.written = TRUE,
                          !.manifest_json = <<gen.mods, gen.configs>>]
    /\ UNCHANGED <<mod_folder, remove_old_var, remove_old, fs, pc, err,
                   mods, i, existing_files, files_in_manifest, success,
                   errors, dest, payload, written, dl_ret, todo, fs0,
                   dl_pre, attempts, results, netFail, deleted, prev>>

GenNext ==
    \/ GenListMods
    \/ GenAddMod
    \/ GenModsDone
    \/ GenAddConfig
    \/ GenConfigsDone
    \/ GenWrite

GenInit == UpdOff /\ GenFiles

GenSpec == GenInit /\ [][GenNext]_vars

(***************************************************************************)
(* Vocabulary of the properties                                            *)
(***************************************************************************)
Running == pc \notin {"idle", "fetch", "off"}

(* the run got a manifest (mods is the manifest of this run) *)
GotManifest == Running /\ err # FetchErrMsg

(* the file names the manifest refers to *)
ManifestNames(m) == {Filename(m[k]) : k \in 1..Len(m)} \ {""}

NamedEntries(m) == {k \in 1..Len(m) : Filename(m[k]) # ""}

(* the folder holds exactly the manifest's files, each with its digest *)
InSync(folder, m) ==
    /\ Present(folder) = ManifestNames(m)
    /\ \A k \in NamedEntries(m) :
         /\ folder[Filename(m[k])].exists
         /\ hexdigest(folder[Filename(m[k])].data) = m[k].sha256

Reported(outcome) == {k \in 1..Len(results) : results[k] = outcome}

(***************************************************************************)
(* C1.  For every entry fetched in a run: if the digest of the downloaded  *)
(* bytes differs from the entry's sha256, the live file at the destination *)
(* is what it was before the run started (same content or same absence),   *)
(* and the entry is reported as a hash mismatch, never as a success.       *)
(* The code downloads straight into the destination, so this is violated.  *)
(***************************************************************************)
C1_MismatchLeavesLiveFile ==
    /\ (pc = "verify" /\ dl_ret /\ HashMismatch(fs, mods[i]))
          => fs[dest] = fs0[dest]
    /\ (pc = "loop" /\ i > 1 /\ results[i - 1] = "success")
          => ~HashMismatch(fs, mods[i - 1])

(***************************************************************************)
(* C2.  During a fetch, and after a fetch that failed part-way, the        *)
(* destination holds its pre-fetch content (or is absent as before) or the *)
(* completely received payload, never a proper prefix of it.               *)
(* The code opens the destination with 'wb' and appends chunk by chunk, so *)
(* this is violated.                                                       *)
(***************************************************************************)
C2_NoPartialFileAtDestination ==
    pc \in {"stream", "verify"} =>
        \/ fs[dest] = dl_pre
        \/ (pc = "stream" \/ written > 0 \/ dl_ret) /\ fs[dest] = File(payload)

(***************************************************************************)
(* C3.  A fetched manifest with zero entries makes the run fail with the   *)
(* error "No mods found in manifest!" before any file is downloaded or     *)
(* deleted, whatever remove_old is and whatever the folder contains.       *)
(***************************************************************************)
C3_EmptyManifestFailsBeforeAnyChange ==
    (GotManifest /\ Len(mods) = 0) =>
        /\ pc = "error"
        /\ err = NoModsMsg
        /\ fs = fs0
        /\ deleted = {}
        /\ attempts = <<>>
        /\ results = <<>>

(* an empty manifest was refused with cleanup on and files in the folder *)
C3_Witness ==
    /\ pc = "error"
    /\ err = NoModsMsg
    /\ Len(mods) = 0
    /\ remove_old
    /\ Cardinality(Present(fs)) >= 2

(***************************************************************************)
(* C4.  When a run is over, every entry had to be fetched and exactly one  *)
(* transfer raised: the run completed (it did not abort), download_file    *)
(* was called once per entry in manifest order, exactly the entry whose    *)
(* transfer raised is reported failed, the other N-1 are reported success  *)
(* or hash mismatch, and the counters add up to N.                         *)
(***************************************************************************)
C4_OneFailureIsIsolated ==
    ( /\ pc \in {"done", "error"}
      /\ Cardinality(netFail) = 1
      /\ Reported("keep") = {} /\ Reported("skip") = {} )
    =>
        /\ pc = "done"
        /\ attempts = [k \in 1..Len(mods) |-> k]
        /\ Len(results) = Len(mods)
        /\ Reported("failed") = netFail
        /\ \A k \in (1..Len(mods)) \ netFail :
             results[k] \in {"success", "mismatch"}
        /\ errors = 1 + Cardinality(Reported("mismatch"))
        /\ success + errors = Len(mods)

(* the first of two fetches failed and the second was still carried out *)
C4_Witness ==
    /\ pc = "done"
    /\ Len(mods) >= 2
    /\ netFail = {1}
    /\ Reported("keep") = {} /\ Reported("skip") = {}
    /\ Reported("success") # {}

(***************************************************************************)
(* C5.  Within a run a file is deleted only after every entry has been     *)
(* processed, and only if no fetch of the run ended in a download failure  *)
(* or a hash mismatch.                                                     *)
(* The cleanup of the code does not look at the error counter, so the      *)
(* second half is violated.                                                *)
(***************************************************************************)
C5_DeleteOnlyAfterCleanFetches ==
    (Running /\ deleted # {}) =>
        /\ i > Len(mods)
        /\ errors = 0
        /\ Reported("failed") = {} /\ Reported("mismatch") = {}

(***************************************************************************)
(* C6.  When a run starts on a folder that is in sync with the manifest it *)
(* fetches, it calls download_file for no entry, reports no failure, keeps *)
(* every entry that names a file, deletes nothing and leaves the folder as *)
(* it was.                                                                 *)
(***************************************************************************)
C6_SyncedRunChangesNothing ==
    (GotManifest /\ InSync(fs0, mods)) =>
        /\ fs = fs0
        /\ attempts = <<>>
        /\ deleted = {}
        /\ errors = 0
        /\ \A k \in 1..Len(results) :
             results[k] = IF Filename(mods[k]) = "" THEN "skip" ELSE "keep"
        /\ pc = "done" => success = Cardinality(NamedEntries(mods))

(* the second of two runs on the same two-entry manifest, the first having *)
(* fetched files without an error: everything is kept *)
C6_Witness ==
    /\ pc = "done"
    /\ prev = "clean_same"
    /\ InSync(fs0, mods)
    /\ remove_old
    /\ Cardinality(ManifestNames(mods)) = 2
    /\ Reported("keep") = 1..Len(mods)

(***************************************************************************)
(* C7.  Vocabulary: every download of the run succeeded with the expected  *)
(* digest; the folder holds exactly the manifest's files with their        *)
(* digests; every removal the cleanup tried succeeded; the manifest gives  *)
(* no file name two digests.                                               *)
(***************************************************************************)
AllDownloadsMatched ==
    /\ Reported("failed") = {}
    /\ Reported("mismatch") = {}
    /\ \A k \in Reported("success") : mods[k].sha256 # None

Converged == InSync(fs, mods)

AllRemovalsSucceeded == Stale(existing_files, files_in_manifest) \subseteq deleted

ConsistentDigests(m) ==
    \A j, k \in NamedEntries(m) :
        Filename(m[j]) = Filename(m[k]) => m[j].sha256 = m[k].sha256

(***************************************************************************)
(* C7 as stated.  For every manifest and every folder: with cleanup on and *)
(* every download succeeding with its expected digest, the folder after    *)
(* the completed run holds exactly the manifest's files with the           *)
(* manifest's digests.                                                     *)
(* Violated: by a removal that fails (logged and skipped), and by two      *)
(* entries that give one file name two digests.  (A manifest without       *)
(* entries is refused, so no run completes on it.)                         *)
(***************************************************************************)
C7_ConvergenceAsStated ==
    (pc = "done" /\ remove_old /\ AllDownloadsMatched) => Converged

(***************************************************************************)
(* C7 amended.  For every manifest the run accepts (at least one entry)    *)
(* that gives no file name two different digests, and every folder: with   *)
(* cleanup on, every download succeeding with its expected digest and      *)
(* every removal succeeding, the folder after the run holds exactly the    *)
(* manifest's files with the manifest's digests.                           *)
(***************************************************************************)
C7_Convergence ==
    ( /\ pc = "done"
      /\ remove_old
      /\ AllDownloadsMatched
      /\ AllRemovalsSucceeded
      /\ ConsistentDigests(mods) )
    => Converged

(* one entry kept, one fetched and one stale file removed in the same run *)
C7_Witness ==
    /\ pc = "done"
    /\ remove_old
    /\ AllDownloadsMatched
    /\ AllRemovalsSucceeded
    /\ ConsistentDigests(mods)
    /\ Reported("keep") # {}
    /\ Reported("success") # {}
    /\ deleted # {}
    /\ ~InSync(fs0, mods)

(***************************************************************************)
(* C8.  A run deletes a file only if remove_old is on, the file was in the *)
(* folder when the run started and no manifest entry refers to its name;   *)
(* with remove_old off, every file no entry refers to is left as it was.   *)
(***************************************************************************)
C8_DeletesOnlyStaleFilesWhenEnabled ==
    GotManifest =>
        \A f \in Names :
            /\ (f \in deleted \/ (fs0[f].exists /\ ~fs[f].exists)) =>
                   /\ remove_old
                   /\ fs0[f].exists
                   /\ f \notin ManifestNames(mods)
            /\ (~remove_old /\ f \notin ManifestNames(mods)) => fs[f] = fs0[f]

(* a run that fetched one file and removed a stale one *)
C8_Witness ==
    /\ pc = "done"
    /\ deleted # {}
    /\ Reported("success") # {}
    /\ \E f \in Names : fs[f].exists /\ f \notin deleted

(***************************************************************************)
(* C9.  The generator never silently skips a missing configured root: if   *)
(* the mods directory or the config directory does not exist, manifest.json*)
(* is not written and, once the build is over, an error has been reported. *)
(* os.walk yields nothing for a missing directory, so "root" writes the    *)
(* manifest without a word when only the config directory is missing.      *)
(***************************************************************************)
RootExists(root) == IF root = "mods" THEN gen.mods_dir ELSE gen.config_dir

C9_MissingRootIsReported ==
    (gen.pc # "off" /\ \E root \in ConfiguredRoots(gen.variant) : ~RootExists(root)) =>
        /\ ~gen.written
        /\ gen.pc \in {"done", "crashed"} => gen.reported # ""

(***************************************************************************)
(* C10.  Whenever a run has deleted a file, at least one manifest entry    *)
(* contributed a file name to files_in_manifest in that run.               *)
(* A non-empty manifest whose entries all lack "file" passes the guard and *)
(* empties the folder, so this is violated.                                *)
(***************************************************************************)
C10_NoDeletionOnDegenerateManifest ==
    (Running /\ deleted # {}) => files_in_manifest # {}

====
